---- MODULE Spec2Model ----
(***************************************************************************)
(* cargo-fork: the source-resolution and patch pipeline.                   *)
(*                                                                         *)
(* main() of src/src/main.rs is modelled as a sequential state machine,    *)
(* one action per stage; the helpers it calls (archive scan, full unpack,  *)
(* manifest patch, dependency diff) are operators computed as the code     *)
(* computes them.  Option<T> is a sequence of length 0 (None) or 1         *)
(* (Some); a path is the sequence of its components.                       *)
(***************************************************************************)
EXTENDS Naturals, Sequences, FiniteSets, TLC

VARIABLES
    run,             \* number of the current invocation of the tool
    pc,              \* position of main() in its stage sequence
    args,            \* Args: source, dest_dir, crate_name
    fs,              \* candidate destination paths on disk -> what is there
    fs0,             \* fs when the current invocation started
    disk,            \* the manifest file on disk (Cargo.toml of the workspace)
    disk0,           \* disk when the current invocation started
    writes,          \* how often this invocation wrote the manifest file
    manifest,        \* Option: the in-memory Manifest
    metadata_before, \* Option: Metadata of the first query
    metadata_after,  \* Option: Metadata of the second query
    archive,         \* entries of the release archive last fetched
    vcs_result,      \* result of the last VCS-info extraction
    tmp_entries,     \* top-level entries of the scratch directory after a full unpack
    archive_root,    \* Option: result of unpack_crate_archive
    repo_url,        \* Option: final path segment of the declared repository URL
    checkout_dir,    \* Option: where the repository is checked out
    current_vcs_info,\* Option: VcsInfo returned by lookup_vcs_revision
    revision,        \* Option: revision specifier handed to git_checkout
    gitlog,          \* git operations of this invocation, in order
    patch_dir,       \* Option: the acquired source path
    resolver,        \* Option: exit status of the external resolver (cargo update)
    output,          \* what print_changed_deps printed
    diffs,           \* Option: what diff_deps returned
    stages,          \* stages of main() this invocation has executed, in order
    err              \* "" or the error main() returned

vars == <<run, pc, args, fs, fs0, disk, disk0, writes, manifest, metadata_before,
          metadata_after, archive, vcs_result, tmp_entries, archive_root, repo_url,
          checkout_dir, current_vcs_info, revision, gitlog, patch_dir, resolver,
          output, diffs, stages, err>>

(***************************************************************************)
(* Bounds of the model.                                                    *)
(***************************************************************************)
MaxEntries == 2      \* entries of a release archive
MaxNodes == 2        \* package ids of a dependency graph
MaxRuns == 2         \* invocations of the tool against one workspace

None == <<>>
Some(v) == <<v>>
IsSome(o) == Len(o) = 1
Unwrap(o) == o[1]

(***************************************************************************)
(* Paths.  std::path compares paths by components, and components() drops  *)
(* a "." that is not the first component.                                  *)
(***************************************************************************)
Components(p) == SelectSeq(p, LAMBDA c : c # ".")

Join(base, rel) == base \o rel

PathEq(p, q) == Components(p) = Components(q)

\* Path::file_name: the last component when it is a normal one
file_name(p) ==
    IF p = <<>> \/ p[Len(p)] \in {".", ".."} THEN None ELSE Some(p[Len(p)])

VcsFileName == ".cargo_vcs_info.json"
WorkspaceParent == <<"ws_parent">>
TmpDir == <<"tmp">>
DestArg == <<"dest">>
RepoSegment == "repo"
CrateNames == {"foo", "bar"}
Sources == {"Crate", "VCSHead", "VCSCurrent"}

(***************************************************************************)
(* The release archive: a sequence of entries, each a path and (for the    *)
(* metadata file) the JSON text it holds.  A JSON text is modelled by what *)
(* serde reads from it: unparsable, or the optional git section with its   *)
(* optional sha1 and the optional path_in_vcs.                             *)
(***************************************************************************)
Json(valid, git, piv) == [valid |-> valid, git |-> git, path_in_vcs |-> piv]
NotJson == Json(FALSE, None, None)
GitInfo(sha1) == [sha1 |-> sha1]

VcsJsons ==
    { Json(TRUE, Some(GitInfo(Some("abcd1234"))), Some(<<"crates", "foo">>)),
      Json(TRUE, Some(GitInfo(Some("abcd1234"))), None),
      Json(TRUE, Some(GitInfo(None)), Some(<<"crates", "foo">>)),
      Json(TRUE, None, None),
      NotJson }

Entry(path, contents) == [path |-> path, contents |-> contents]

ArchiveEntries ==
    { Entry(<<"foo-1.2.3", "Cargo.toml">>, NotJson),
      Entry(<<"README">>, NotJson),
      Entry(<<".">>, NotJson) }
    \cup { Entry(<<"foo-1.2.3", VcsFileName>>, j) : j \in VcsJsons }

Archives == UNION { [1..n -> ArchiveEntries] : n \in 0..MaxEntries }

\* outcomes of fetch_crate_archive and of reading the stream it returns
NetOutcomes == {"ok", "http_error", "corrupt"}

Ok(v) == [ok |-> TRUE, err |-> "", val |-> v]
Err(e) == [ok |-> FALSE, err |-> e, val |-> None]

VcsInfo(hash, path) == [hash |-> hash, path_in_repo |-> path]

\* ParseVcsInfo taking a metadata file without revision for "no info"
ParseVcsInfo_lenient(contents) ==
    IF ~contents.valid THEN Err("JsonParseError")
    ELSE IF ~IsSome(contents.git) \/ ~IsSome(Unwrap(contents.git).sha1) THEN Ok(None)
    ELSE Ok(Some(VcsInfo(Unwrap(Unwrap(contents.git).sha1),
                         IF IsSome(contents.path_in_vcs)
                         THEN Unwrap(contents.path_in_vcs)
                         ELSE <<".">>)))

\* ParseVcsInfo dropping the recorded subpath
ParseVcsInfo_no_subpath(contents) ==
    IF ~contents.valid THEN Err("JsonParseError")
    ELSE IF ~IsSome(contents.git) THEN Err("NoGitInfo")
    ELSE IF ~IsSome(Unwrap(contents.git).sha1) THEN Err("MissingVcsRevision")
    ELSE Ok(Some(VcsInfo(Unwrap(Unwrap(contents.git).sha1), <<".">>)))

\* the body of the if: parse the metadata file found at an entry
ParseVcsInfo(contents) ==
    IF ~contents.valid THEN Err("JsonParseError")
    ELSE IF ~IsSome(contents.git) THEN Err("NoGitInfo")
    ELSE IF ~IsSome(Unwrap(contents.git).sha1) THEN Err("MissingVcsRevision")
    ELSE Ok(Some(VcsInfo(Unwrap(Unwrap(contents.git).sha1),
                         IF IsSome(contents.path_in_vcs)
                         THEN Unwrap(contents.path_in_vcs)
                         ELSE <<".">>)))

RECURSIVE ScanEntries(_, _)

\* ScanEntries reporting an archive without the metadata file as an error
ScanEntries_must_find(a, i) ==
    IF i > Len(a) THEN Err("NoVcsInfoForRelease")
    ELSE IF ~IsSome(file_name(a[i].path)) THEN Err("UnexpectedPath")
    ELSE IF Unwrap(file_name(a[i].path)) = VcsFileName THEN ParseVcsInfo(a[i].contents)
    ELSE ScanEntries(a, i + 1)

\* the while loop over the entries, from entry i on
ScanEntries(a, i) ==
    IF i > Len(a) THEN Ok(None)
    ELSE IF ~IsSome(file_name(a[i].path)) THEN Err("UnexpectedPath")
    ELSE IF Unwrap(file_name(a[i].path)) = VcsFileName THEN ParseVcsInfo(a[i].contents)
    ELSE ScanEntries(a, i + 1)

lookup_vcs_for_version(net, a) ==
    IF net = "http_error" THEN Err("NetworkError")
    ELSE IF net = "corrupt" THEN Err("ArchiveFormatError")
    ELSE ScanEntries(a, 1)

\* main.rs carries the same function under its older name
lookup_vcs_revision(net, a) == lookup_vcs_for_version(net, a)

(***************************************************************************)
(* Full unpack.  Unpacking creates, for every entry, the directories of    *)
(* its path; an entry whose path has only "." parts creates nothing.       *)
(***************************************************************************)
DirEntry(name, is_dir) == [name |-> name, is_dir |-> is_dir]

TopLevel(a) ==
    { DirEntry(Components(a[i].path)[1], Len(Components(a[i].path)) > 1) :
        i \in { j \in 1..Len(a) : Components(a[j].path) # <<>> } }

unpack_crate_archive(net, a) ==
    IF net = "http_error" THEN Err("NetworkError")
    ELSE IF net = "corrupt" THEN Err("ArchiveFormatError")
    ELSE IF Cardinality(TopLevel(a)) > 1 THEN Err("MalformedArchiveLayout")
    ELSE IF TopLevel(a) = {} THEN Err("MalformedArchiveLayout")
    ELSE Ok(Some(Join(TmpDir, <<(CHOOSE e \in TopLevel(a) : TRUE).name>>)))

(***************************************************************************)
(* The manifest document.  Of a toml_edit document the model keeps the     *)
(* item at key "patch", the item at "crates-io" inside it and the entries  *)
(* of that table in file order, each table with the flag that decides      *)
(* whether its header is rendered (implicit).  kind is "none", "value"     *)
(* (anything that is not a table) or "table".                              *)
(***************************************************************************)
PatchEntry(path, name) == [path |-> path, package |-> name]

\* one key of a table with the item stored under it
KeyValue(key, item) == [key |-> key, item |-> item]

NoEntries == << >>

CratesIoItem(kind, implicit, entries) ==
    [kind |-> kind, implicit |-> implicit, entries |-> entries]

NoCratesIo == CratesIoItem("none", FALSE, NoEntries)

PatchItem(kind, implicit, cio) == [kind |-> kind, implicit |-> implicit, crates_io |-> cio]

\* rest stands for every other table, key and comment of the file
Doc(patch) == [patch |-> patch, rest |-> "intact"]


OldPath == <<"old">>

ManifestDocs ==
    { \* no [patch] at all
      Doc(PatchItem("none", FALSE, NoCratesIo)),
      \* [patch.crates-io] with an override of foo
      Doc(PatchItem("table", TRUE,
            CratesIoItem("table", FALSE,
                <<KeyValue("foo", PatchEntry(OldPath, "foo"))>>))),
      \* [patch] and [patch.crates-io] both written out, with an override of bar
      Doc(PatchItem("table", FALSE,
            CratesIoItem("table", FALSE,
                <<KeyValue("bar", PatchEntry(OldPath, "bar"))>>))),
      \* patch = <a value>
      Doc(PatchItem("value", FALSE, NoCratesIo)),
      \* [patch] with crates-io = <a value>
      Doc(PatchItem("table", FALSE, CratesIoItem("value", FALSE, NoEntries))) }

\* entry(key).or_insert_with(table): the item navigated to, created when absent
or_insert_table(kind) == IF kind = "none" THEN "table" ELSE kind

\* the loop over ["patch", "crates-io"]; val is the document with the tables
\* created and marked implicit
toml_get_or_create_table_by_path(doc) ==
    LET k1 == or_insert_table(doc.patch.kind)
        k2 == or_insert_table(doc.patch.crates_io.kind)
    IN  IF k1 # "table" THEN Err("MalformedCargoToml")
        ELSE IF k2 # "table" THEN Err("MalformedCargoToml")
        ELSE Ok(Some(Doc(PatchItem("table", TRUE,
                        CratesIoItem("table", TRUE, doc.patch.crates_io.entries)))))

\* the positions of a key in a table
KeyIndexes(entries, key) == {i \in DOMAIN entries : entries[i].key = key}

\* a table_assign that adds a key/value pair without looking for the key
table_assign_appends(entries, key, item) == Append(entries, KeyValue(key, item))

\* patch_table[&package_name] = item: the item under the key is replaced where
\* it stands, a key the table does not have is added after the others
table_assign(entries, key, item) ==
    IF KeyIndexes(entries, key) # {}
    THEN [i \in DOMAIN entries |->
            IF entries[i].key = key THEN KeyValue(key, item) ELSE entries[i]]
    ELSE Append(entries, KeyValue(key, item))

manifest_insert_patch(doc, package_name, dir) ==
    LET t == toml_get_or_create_table_by_path(doc)
    IN  IF ~t.ok THEN t
        ELSE LET d == Unwrap(t.val)
             IN  Ok(Some(Doc(PatchItem(d.patch.kind, d.patch.implicit,
                      CratesIoItem(d.patch.crates_io.kind, d.patch.crates_io.implicit,
                          table_assign(d.patch.crates_io.entries, package_name,
                                       PatchEntry(dir, package_name)))))))

(***************************************************************************)
(* manifest.data.to_string(): the document as the lines of the file.  A    *)
(* table's header line is left out when the table is marked implicit and   *)
(* has no key of its own that holds a value; the tables inside it are      *)
(* rendered all the same.                                                  *)
(***************************************************************************)
Line(kind, key, item) == [kind |-> kind, key |-> key, item |-> item]

Header(name) == Line("header", name, None)

EntryLines(entries) ==
    [i \in DOMAIN entries |-> Line("entry", entries[i].key, Some(entries[i].item))]

HeaderShown(implicit, values) == ~(implicit /\ values = << >>)

RenderCratesIo(cio) ==
    IF cio.kind = "table"
    THEN (IF HeaderShown(cio.implicit, cio.entries)
          THEN <<Header("patch.crates-io")>> ELSE << >>)
         \o EntryLines(cio.entries)
    ELSE << >>

RenderPatch(patch) ==
    IF patch.kind = "value" THEN <<Line("value", "patch", None)>>
    ELSE IF patch.kind = "table"
    THEN LET values == IF patch.crates_io.kind = "value"
                       THEN <<Line("value", "crates-io", None)>> ELSE << >>
         IN  (IF HeaderShown(patch.implicit, values) THEN <<Header("patch")>> ELSE << >>)
             \o values \o RenderCratesIo(patch.crates_io)
    ELSE << >>

Render(doc) == <<Line("rest", doc.rest, None)>> \o RenderPatch(doc.patch)

(***************************************************************************)
(* Dependency graphs and their diff.  Metadata.resolve.nodes is a set of   *)
(* nodes with distinct ids, each with the ids it depends on.               *)
(***************************************************************************)
Nodes == 1..MaxNodes

ResolveNode(id, deps) == [id |-> id, dependencies |-> deps]

Resolves ==
    UNION { { { ResolveNode(n, f[n]) : n \in D } : f \in [D -> SUBSET Nodes] } :
            D \in SUBSET Nodes }

Metadata(packages, nodes) == [packages |-> packages, nodes |-> nodes]

cargo_meta_to_depmap(metadata) ==
    [ id \in { n.id : n \in metadata.nodes } |->
        (CHOOSE n \in metadata.nodes : n.id = id).dependencies ]

Diff(pkg_id, removed, added) == [pkg_id |-> pkg_id, removed |-> removed, added |-> added]

\* diff_deps listing a new node's dependencies as added
diff_deps_lists_new(before, after) ==
    LET depmap_after == cargo_meta_to_depmap(after)
        depmap_before == cargo_meta_to_depmap(before)
    IN  { Diff(id,
               IF id \in DOMAIN depmap_before
               THEN depmap_before[id] \ depmap_after[id] ELSE {},
               IF id \in DOMAIN depmap_before
               THEN depmap_after[id] \ depmap_before[id] ELSE depmap_after[id]) :
            id \in { i \in DOMAIN depmap_after :
                        ~(i \in DOMAIN depmap_before /\ depmap_before[i] = depmap_after[i]) } }

\* diff_deps with the two differences exchanged
diff_deps_swapped(before, after) ==
    LET depmap_after == cargo_meta_to_depmap(after)
        depmap_before == cargo_meta_to_depmap(before)
    IN  { Diff(id,
               IF id \in DOMAIN depmap_before
               THEN depmap_after[id] \ depmap_before[id] ELSE {},
               IF id \in DOMAIN depmap_before
               THEN depmap_before[id] \ depmap_after[id] ELSE {}) :
            id \in { i \in DOMAIN depmap_after :
                        ~(i \in DOMAIN depmap_before /\ depmap_before[i] = depmap_after[i]) } }

\* manifest.rs: the list of (id, (removed, added)), as a set
diff_deps(before, after) ==
    LET depmap_after == cargo_meta_to_depmap(after)
        depmap_before == cargo_meta_to_depmap(before)
    IN  { Diff(id,
               IF id \in DOMAIN depmap_before
               THEN depmap_before[id] \ depmap_after[id] ELSE {},
               IF id \in DOMAIN depmap_before
               THEN depmap_after[id] \ depmap_before[id] ELSE {}) :
            id \in { i \in DOMAIN depmap_after :
                        ~(i \in DOMAIN depmap_before /\ depmap_before[i] = depmap_after[i]) } }

Block(header, pkg_id, minus, plus) ==
    [header |-> header, pkg_id |-> pkg_id, minus |-> minus, plus |-> plus]

\* main.rs: what is printed, one block per reported package: the header line
\* ("<id>:" or, for a new package, "+<id>:") and the "  - " and "  + " lines
print_changed_deps(before, after) ==
    LET depmap_after == cargo_meta_to_depmap(after)
        depmap_before == cargo_meta_to_depmap(before)
    IN  { IF id \in DOMAIN depmap_before
          THEN Block("changed", id, depmap_before[id] \ depmap_after[id],
                                    depmap_after[id] \ depmap_before[id])
          ELSE Block("new", id, {}, {}) :
            id \in { i \in DOMAIN depmap_after :
                        ~(i \in DOMAIN depmap_before /\ depmap_before[i] = depmap_after[i]) } }

(***************************************************************************)
(* The file system: what is at each path an invocation can use as its      *)
(* destination.  kind is "absent", "dir", "file" or "repo" (a directory    *)
(* that is a git repository); tree says what the content is: "pre"         *)
(* (there before the tool ran), "snapshot" (the moved archive root) or the *)
(* revision whose tree was checked out.                                    *)
(***************************************************************************)
TopNames == {"foo-1.2.3", "README"}

DestPaths == {DestArg} \cup { Join(WorkspaceParent, <<n>>) : n \in TopNames \cup {RepoSegment} }

At(kind, tree) == [kind |-> kind, tree |-> tree]
Absent == At("absent", "")

\* try_exists that never sees the path
try_exists_blind(p) == FALSE

\* main.rs 321 (and 231): whether something is at the path
try_exists(p) == fs[p].kind # "absent"

Args(source, dest_dir, crate_name) ==
    [source |-> source, dest_dir |-> dest_dir, crate_name |-> crate_name]

ArgSets ==
    { Args(s, d, n) : s \in Sources, d \in {None, Some(DestArg)}, n \in CrateNames }

PackageSets == { {"foo"}, {"foo", "bar"} }

\* the resolver's graphs in a run of the pipeline: before the override, and after
ResolvesBefore == { {ResolveNode(1, {})} }
ResolvesAfter == { {ResolveNode(1, {})}, {ResolveNode(1, {1})} }

\* a fetch of the release archive: how the network answers, and the archive served
Fetches == NetOutcomes \X Archives

\* every way the full unpack of a fetched archive can end: the result of
\* unpack_crate_archive and the top-level entries left in the scratch directory
Unpacked(net, a) ==
    [result |-> unpack_crate_archive(net, a),
     entries |-> IF net = "ok" THEN TopLevel(a) ELSE {}]

UnpackOutcomes == { Unpacked(f[1], f[2]) : f \in Fetches }

\* every way the scan of a fetched archive can end
LookupOutcomes == { lookup_vcs_revision(f[1], f[2]) : f \in Fetches }

\* the state of an invocation before main() has done anything
Fresh ==
    /\ pc = "query_before"
    /\ args \in ArgSets
    /\ writes = 0
    /\ manifest = None
    /\ metadata_before = None
    /\ metadata_after = None
    /\ archive = <<>>
    /\ vcs_result = None
    /\ tmp_entries = {}
    /\ archive_root = None
    /\ repo_url = None
    /\ checkout_dir = None
    /\ current_vcs_info = None
    /\ revision = None
    /\ gitlog = <<>>
    /\ patch_dir = None
    /\ resolver = None
    /\ output = {}
    /\ diffs = None
    /\ stages = <<>>
    /\ err = ""

Init ==
    /\ run = 1
    /\ fs \in { [p \in DestPaths |-> IF p = DestArg THEN x ELSE Absent] :
                  x \in {Absent, At("dir", "pre"), At("repo", "pre")} }
    /\ fs0 = fs
    /\ disk \in ManifestDocs
    /\ disk0 = disk
    /\ Fresh

\* main() returns Err(e)
Fail(e) == pc' = "failed" /\ err' = e

Stage(name) == stages' = Append(stages, name)

\* main.rs 296: the first metadata query
QueryBefore ==
    /\ pc = "query_before"
    /\ Stage("query_before")
    /\ \/ /\ Fail("MetadataQueryFailed")
          /\ UNCHANGED metadata_before
       \/ /\ \E pk \in PackageSets, r \in ResolvesBefore :
                metadata_before' = Some(Metadata(pk, r))
          /\ pc' = "parse_manifest"
          /\ UNCHANGED err
    /\ UNCHANGED <<run, args, fs, fs0, disk, disk0, writes, manifest, metadata_after,
                   archive, vcs_result, tmp_entries, archive_root, repo_url, checkout_dir,
                   current_vcs_info, revision, gitlog, patch_dir, resolver, output, diffs>>

\* main.rs 301-304: read and parse the manifest file
ParseManifest ==
    /\ pc = "parse_manifest"
    /\ Stage("parse_manifest")
    /\ \/ /\ \E e \in {"ManifestReadFailed", "ManifestParseError"} : Fail(e)
          /\ UNCHANGED manifest
       \/ /\ manifest' = Some(disk)
          /\ pc' = "find_package"
          /\ UNCHANGED err
    /\ UNCHANGED <<run, args, fs, fs0, disk, disk0, writes, metadata_before,
                   metadata_after, archive, vcs_result, tmp_entries, archive_root, repo_url,
                   checkout_dir, current_vcs_info, revision, gitlog, patch_dir, resolver,
                   output, diffs>>

\* main.rs 307-315: the package must be a dependency; then the branch on the source
FindPackage ==
    /\ pc = "find_package"
    /\ Stage("find_package")
    /\ IF args.crate_name \notin Unwrap(metadata_before).packages
       THEN Fail("PackageNotFound")
       ELSE /\ pc' = IF args.source = "Crate" THEN "unpack" ELSE "get_repo"
            /\ UNCHANGED err
    /\ UNCHANGED <<run, args, fs, fs0, disk, disk0, writes, manifest, metadata_before,
                   metadata_after, archive, vcs_result, tmp_entries, archive_root, repo_url,
                   checkout_dir, current_vcs_info, revision, gitlog, patch_dir, resolver,
                   output, diffs>>

\* main.rs 317-318: fetch the archive and unpack all of it into a scratch directory
Unpack ==
    /\ pc = "unpack"
    /\ Stage("unpack")
    /\ \E u \in UnpackOutcomes :
         LET r == u.result
         IN  /\ tmp_entries' = u.entries
             /\ IF r.ok
                THEN /\ archive_root' = r.val
                     /\ pc' = "move"
                     /\ UNCHANGED err
                ELSE /\ Fail(r.err)
                     /\ UNCHANGED archive_root
    /\ UNCHANGED <<run, args, fs, fs0, disk, disk0, writes, manifest, metadata_before,
                   metadata_after, archive, vcs_result, repo_url, checkout_dir,
                   current_vcs_info, revision, gitlog, patch_dir, resolver, output, diffs>>

\* main.rs 320: the destination of the snapshot
patch_root ==
    IF IsSome(args.dest_dir) THEN Unwrap(args.dest_dir)
    ELSE Join(WorkspaceParent, file_name(Unwrap(archive_root)))

\* main.rs 320-325: refuse an occupied destination, else move the archive root there
MoveSnapshot ==
    /\ pc = "move"
    /\ Stage("move")
    /\ IF try_exists(patch_root)
       THEN /\ Fail("DestinationExists")
            /\ UNCHANGED <<fs, patch_dir>>
       ELSE \/ /\ Fail("RenameFailed")
               /\ UNCHANGED <<fs, patch_dir>>
            \/ /\ fs' = [fs EXCEPT ![patch_root] =
                           At(IF (CHOOSE e \in tmp_entries : TRUE).is_dir
                              THEN "dir" ELSE "file", "snapshot")]
               /\ patch_dir' = Some(patch_root)
               /\ pc' = "insert_patch"
               /\ UNCHANGED err
    /\ UNCHANGED <<run, args, fs0, disk, disk0, writes, manifest, metadata_before,
                   metadata_after, archive, vcs_result, tmp_entries, archive_root, repo_url,
                   checkout_dir, current_vcs_info, revision, gitlog, resolver, output, diffs>>

\* main.rs 327-331: the repository the registry declares, and where to check it out
GetRepo ==
    /\ pc = "get_repo"
    /\ Stage("get_repo")
    /\ \/ /\ \E e \in {"NetworkError", "NoRepositoryDeclared", "UrlParseError"} : Fail(e)
          /\ UNCHANGED <<repo_url, checkout_dir>>
       \/ /\ repo_url' = Some(RepoSegment)
          /\ checkout_dir' = Some(IF IsSome(args.dest_dir) THEN Unwrap(args.dest_dir)
                                  ELSE Join(WorkspaceParent, <<RepoSegment>>))
          /\ pc' = "lookup_vcs"
          /\ UNCHANGED err
    /\ UNCHANGED <<run, args, fs, fs0, disk, disk0, writes, manifest, metadata_before,
                   metadata_after, archive, vcs_result, tmp_entries, archive_root,
                   current_vcs_info, revision, gitlog, patch_dir, resolver, output, diffs>>

\* main.rs 333: scan the release archive for the VCS metadata file
LookupVcs ==
    /\ pc = "lookup_vcs"
    /\ Stage("lookup_vcs")
    /\ \E r \in LookupOutcomes :
             IF r.ok
             THEN /\ current_vcs_info' = r.val
                  /\ pc' = "select_revision"
                  /\ UNCHANGED err
             ELSE /\ Fail(r.err)
                  /\ UNCHANGED current_vcs_info
    /\ UNCHANGED <<run, args, fs, fs0, disk, disk0, writes, manifest, metadata_before,
                   metadata_after, archive, vcs_result, tmp_entries, archive_root, repo_url,
                   checkout_dir, revision, gitlog, patch_dir, resolver, output, diffs>>

\* select_revision pinning VCSHead to the recorded hash when there is one
select_revision_pins_head(source, info) ==
    IF ~IsSome(info)
    THEN IF source = "VCSHead" THEN Ok(Some("HEAD")) ELSE Err("NoVcsInfoForRelease")
    ELSE Ok(Some(Unwrap(info).hash))

\* select_revision falling back to "HEAD" when the archive records nothing
select_revision_falls_back(source, info) ==
    IF source = "VCSHead" \/ ~IsSome(info) THEN Ok(Some("HEAD"))
    ELSE Ok(Some(Unwrap(info).hash))

\* main.rs 335-344: "HEAD", or the hash the archive records
select_revision(source, info) ==
    IF source = "VCSHead" THEN Ok(Some("HEAD"))
    ELSE IF ~IsSome(info) THEN Err("NoVcsInfoForRelease")
    ELSE Ok(Some(Unwrap(info).hash))

SelectRevision ==
    /\ pc = "select_revision"
    /\ Stage("select_revision")
    /\ LET r == select_revision(args.source, current_vcs_info)
       IN  IF r.ok
           THEN /\ revision' = r.val
                /\ pc' = "git_checkout"
                /\ UNCHANGED err
           ELSE /\ Fail(r.err)
                /\ UNCHANGED revision
    /\ UNCHANGED <<run, args, fs, fs0, disk, disk0, writes, manifest, metadata_before,
                   metadata_after, archive, vcs_result, tmp_entries, archive_root, repo_url,
                   checkout_dir, current_vcs_info, gitlog, patch_dir, resolver, output, diffs>>

GitOp(op, dir, rev) == [op |-> op, dir |-> dir, rev |-> rev]

\* main.rs 230-265 (called at 346): open or clone, resolve the revision, check out
\* its tree.  o is the outcome of the repository step, v of revparse_single, c of
\* checkout_tree
git_checkout(rev, dir, o, v, c) ==
    LET opened == try_exists(dir)
        op == IF opened THEN "open" ELSE "clone"
        have == IF opened THEN fs[dir].kind = "repo" ELSE o = "ok"
        fs1 == IF opened \/ ~have THEN fs ELSE [fs EXCEPT ![dir] = At("repo", "HEAD")]
        log1 == Append(gitlog, GitOp(op, dir, ""))
    IN  IF ~have
        THEN /\ Fail("GitError") /\ fs' = fs1 /\ gitlog' = log1
        ELSE IF v = "not_found"
        THEN /\ Fail("RevisionNotFound") /\ fs' = fs1 /\ gitlog' = log1
        ELSE IF v = "error" \/ c = "error"
        THEN /\ Fail("GitError") /\ fs' = fs1 /\ gitlog' = log1
        ELSE /\ fs' = [fs1 EXCEPT ![dir] = At("repo", rev)]
             /\ gitlog' = Append(log1, GitOp("checkout", dir, rev))
             /\ pc' = "path_in_repo"
             /\ UNCHANGED err

GitCheckout ==
    /\ pc = "git_checkout"
    /\ Stage("git_checkout")
    /\ \E o \in {"ok", "error"}, v \in {"ok", "not_found", "error"}, c \in {"ok", "error"} :
         git_checkout(Unwrap(revision), Unwrap(checkout_dir), o, v, c)
    /\ UNCHANGED <<run, args, fs0, disk, disk0, writes, manifest, metadata_before,
                   metadata_after, archive, vcs_result, tmp_entries, archive_root, repo_url,
                   checkout_dir, current_vcs_info, revision, patch_dir, resolver, output,
                   diffs>>

\* where the checked-out repository's own metadata can place the package
RepoManifestDirs == { <<>>, <<"crates", "foo">> }

\* main.rs 348-360: the source path inside the checkout
PathInRepo ==
    /\ pc = "path_in_repo"
    /\ Stage("path_in_repo")
    /\ IF IsSome(current_vcs_info)
       THEN /\ patch_dir' = Some(Join(Unwrap(checkout_dir),
                                      Unwrap(current_vcs_info).path_in_repo))
            /\ pc' = "insert_patch"
            /\ UNCHANGED <<err, gitlog>>
       ELSE \/ /\ \E e \in {"MetadataQueryFailed", "PackageNotInRepo"} : Fail(e)
               /\ gitlog' = Append(gitlog, GitOp("query_metadata", Unwrap(checkout_dir), ""))
               /\ UNCHANGED patch_dir
            \/ /\ \E d \in RepoManifestDirs :
                     patch_dir' = Some(Join(Unwrap(checkout_dir), d))
               /\ gitlog' = Append(gitlog, GitOp("query_metadata", Unwrap(checkout_dir), ""))
               /\ pc' = "insert_patch"
               /\ UNCHANGED err
    /\ UNCHANGED <<run, args, fs, fs0, disk, disk0, writes, manifest, metadata_before,
                   metadata_after, archive, vcs_result, tmp_entries, archive_root, repo_url,
                   checkout_dir, current_vcs_info, revision, resolver, output, diffs>>

\* an InsertPatch that goes on to the write when the override table could not
\* be reached
InsertPatch_ignores_error ==
    /\ pc = "insert_patch"
    /\ Stage("insert_patch")
    /\ LET r == manifest_insert_patch(Unwrap(manifest), args.crate_name, Unwrap(patch_dir))
       IN  manifest' = IF r.ok THEN r.val ELSE manifest
    /\ pc' = "write_manifest"
    /\ UNCHANGED <<run, args, fs, fs0, disk, disk0, writes, metadata_before,
                   metadata_after, archive, vcs_result, tmp_entries, archive_root, repo_url,
                   checkout_dir, current_vcs_info, revision, gitlog, patch_dir, resolver,
                   output, diffs, err>>

\* main.rs 363: install the override in the in-memory manifest
InsertPatch ==
    /\ pc = "insert_patch"
    /\ Stage("insert_patch")
    /\ LET r == manifest_insert_patch(Unwrap(manifest), args.crate_name, Unwrap(patch_dir))
       IN  IF r.ok
           THEN /\ manifest' = r.val
                /\ pc' = "write_manifest"
                /\ UNCHANGED err
           ELSE /\ Fail(r.err)
                /\ UNCHANGED manifest
    /\ UNCHANGED <<run, args, fs, fs0, disk, disk0, writes, metadata_before,
                   metadata_after, archive, vcs_result, tmp_entries, archive_root, repo_url,
                   checkout_dir, current_vcs_info, revision, gitlog, patch_dir, resolver,
                   output, diffs>>

\* main.rs 366-369: serialize the document over the manifest file
WriteManifest ==
    /\ pc = "write_manifest"
    /\ Stage("write_manifest")
    /\ \/ /\ Fail("WriteFailed")
          /\ UNCHANGED <<disk, writes>>
       \/ /\ disk' = Unwrap(manifest)
          /\ writes' = writes + 1
          /\ pc' = "cargo_update"
          /\ UNCHANGED err
    /\ UNCHANGED <<run, args, fs, fs0, disk0, manifest, metadata_before,
                   metadata_after, archive, vcs_result, tmp_entries, archive_root, repo_url,
                   checkout_dir, current_vcs_info, revision, gitlog, patch_dir, resolver,
                   output, diffs>>

\* exit codes of the external resolver
ExitCodes == {0, 101}

\* main.rs 371-378: run the external resolver and wait for it; only a failure to
\* run it is an error, the exit status it returns is dropped
CargoUpdate ==
    /\ pc = "cargo_update"
    /\ Stage("cargo_update")
    /\ \/ /\ Fail("SpawnFailed")
          /\ UNCHANGED resolver
       \/ /\ \E code \in ExitCodes : resolver' = Some(code)
          /\ pc' = "query_after"
          /\ UNCHANGED err
    /\ UNCHANGED <<run, args, fs, fs0, disk, disk0, writes, manifest, metadata_before,
                   metadata_after, archive, vcs_result, tmp_entries, archive_root, repo_url,
                   checkout_dir, current_vcs_info, revision, gitlog, patch_dir, output,
                   diffs>>

\* main.rs 380: the second metadata query
QueryAfter ==
    /\ pc = "query_after"
    /\ Stage("query_after")
    /\ \/ /\ Fail("MetadataQueryFailed")
          /\ UNCHANGED metadata_after
       \/ /\ \E r \in ResolvesAfter :
                metadata_after' = Some(Metadata(Unwrap(metadata_before).packages, r))
          /\ pc' = "print_diff"
          /\ UNCHANGED err
    /\ UNCHANGED <<run, args, fs, fs0, disk, disk0, writes, manifest, metadata_before,
                   archive, vcs_result, tmp_entries, archive_root, repo_url, checkout_dir,
                   current_vcs_info, revision, gitlog, patch_dir, resolver, output, diffs>>

\* main.rs 381-383: print the changed dependencies and return Ok
PrintDiff ==
    /\ pc = "print_diff"
    /\ Stage("print_diff")
    /\ output' = print_changed_deps(Unwrap(metadata_before), Unwrap(metadata_after))
    /\ pc' = "done"
    /\ UNCHANGED <<run, args, fs, fs0, disk, disk0, writes, manifest, metadata_before,
                   metadata_after, archive, vcs_result, tmp_entries, archive_root, repo_url,
                   checkout_dir, current_vcs_info, revision, gitlog, patch_dir, resolver,
                   diffs, err>>

\* the tool is invoked again against the same workspace
Restart ==
    /\ pc \in {"done", "failed"}
    /\ run < MaxRuns
    /\ run' = run + 1
    /\ fs0' = fs
    /\ disk0' = disk
    /\ pc' = "query_before"
    /\ args' \in ArgSets
    /\ writes' = 0
    /\ manifest' = None
    /\ metadata_before' = None
    /\ metadata_after' = None
    /\ tmp_entries' = {}
    /\ archive_root' = None
    /\ repo_url' = None
    /\ checkout_dir' = None
    /\ current_vcs_info' = None
    /\ revision' = None
    /\ gitlog' = <<>>
    /\ patch_dir' = None
    /\ resolver' = None
    /\ output' = {}
    /\ stages' = <<>>
    /\ err' = ""
    /\ UNCHANGED <<fs, disk, archive, vcs_result, diffs>>

Next ==
    \/ QueryBefore
    \/ ParseManifest
    \/ FindPackage
    \/ Unpack
    \/ MoveSnapshot
    \/ GetRepo
    \/ LookupVcs
    \/ SelectRevision
    \/ GitCheckout
    \/ PathInRepo
    \/ InsertPatch
    \/ WriteManifest
    \/ CargoUpdate
    \/ QueryAfter
    \/ PrintDiff
    \/ Restart

Spec == Init /\ [][Next]_vars

(***************************************************************************)
(* Acquisition from version control with the release archive in view: an   *)
(* invocation that has reached the archive scan, the archive the registry  *)
(* serves being part of the state.                                         *)
(***************************************************************************)
InitVcs ==
    /\ run = 1
    /\ fs \in { [p \in DestPaths |-> IF p = DestArg THEN x ELSE Absent] :
                  x \in {Absent, At("dir", "pre"), At("repo", "pre")} }
    /\ fs0 = fs
    /\ disk \in ManifestDocs
    /\ disk0 = disk
    /\ pc = "lookup_vcs"
    /\ args \in { a \in ArgSets : a.source # "Crate" /\ a.crate_name = "foo" }
    /\ writes = 0
    /\ manifest = Some(disk)
    /\ metadata_before \in { Some(Metadata({"foo"}, r)) : r \in ResolvesBefore }
    /\ metadata_after = None
    /\ archive \in Archives
    /\ vcs_result = None
    /\ tmp_entries = {}
    /\ archive_root = None
    /\ repo_url = Some(RepoSegment)
    /\ checkout_dir = Some(IF IsSome(args.dest_dir) THEN Unwrap(args.dest_dir)
                           ELSE Join(WorkspaceParent, <<RepoSegment>>))
    /\ current_vcs_info = None
    /\ revision = None
    /\ gitlog = <<>>
    /\ patch_dir = None
    /\ resolver = None
    /\ output = {}
    /\ diffs = None
    /\ stages = <<"query_before", "parse_manifest", "find_package", "get_repo">>
    /\ err = ""

\* main.rs 333 / crates_io.rs 65-114: the scan of the archive the registry serves
ExtractVcsInfo ==
    /\ pc = "lookup_vcs"
    /\ Stage("lookup_vcs")
    /\ \E net \in NetOutcomes :
         LET r == lookup_vcs_for_version(net, archive)
         IN  /\ vcs_result' = Some(r)
             /\ IF r.ok
                THEN /\ current_vcs_info' = r.val
                     /\ pc' = "select_revision"
                     /\ UNCHANGED err
                ELSE /\ Fail(r.err)
                     /\ UNCHANGED current_vcs_info
    /\ UNCHANGED <<run, args, fs, fs0, disk, disk0, writes, manifest, metadata_before,
                   metadata_after, archive, tmp_entries, archive_root, repo_url,
                   checkout_dir, revision, gitlog, patch_dir, resolver, output, diffs>>

NextVcs ==
    \/ ExtractVcsInfo
    \/ SelectRevision
    \/ GitCheckout
    \/ PathInRepo
    \/ InsertPatch
    \/ WriteManifest
    \/ CargoUpdate
    \/ QueryAfter
    \/ PrintDiff

SpecVcs == InitVcs /\ [][NextVcs]_vars

(***************************************************************************)
(* The dependency diff on arbitrary graphs: an invocation that has both    *)
(* snapshots and is about to report the changes.                           *)
(***************************************************************************)
InitDiff ==
    /\ run = 1
    /\ fs = [p \in DestPaths |->
               IF p = Join(WorkspaceParent, <<"foo-1.2.3">>) THEN At("dir", "snapshot")
               ELSE Absent]
    /\ fs0 = [p \in DestPaths |-> Absent]
    /\ disk0 = Doc(PatchItem("none", FALSE, NoCratesIo))
    /\ args = Args("Crate", None, "foo")
    /\ patch_dir = Some(Join(WorkspaceParent, <<"foo-1.2.3">>))
    /\ manifest = manifest_insert_patch(disk0, "foo", Unwrap(patch_dir)).val
    /\ disk = Unwrap(manifest)
    /\ writes = 1
    /\ pc = "print_diff"
    /\ metadata_before \in { Some(Metadata({"foo"}, r)) : r \in Resolves }
    /\ metadata_after \in { Some(Metadata({"foo"}, r)) : r \in Resolves }
    /\ archive = <<>>
    /\ vcs_result = None
    /\ tmp_entries = {DirEntry("foo-1.2.3", TRUE)}
    /\ archive_root = Some(Join(TmpDir, <<"foo-1.2.3">>))
    /\ repo_url = None
    /\ checkout_dir = None
    /\ current_vcs_info = None
    /\ revision = None
    /\ gitlog = <<>>
    /\ resolver = Some(0)
    /\ output = {}
    /\ diffs = None
    /\ stages = <<"query_before", "parse_manifest", "find_package", "unpack", "move",
                  "insert_patch", "write_manifest", "cargo_update", "query_after">>
    /\ err = ""

\* manifest.rs 11-52: the diff as data
DiffDeps ==
    /\ pc = "print_diff"
    /\ diffs = None
    /\ diffs' = Some(diff_deps(Unwrap(metadata_before), Unwrap(metadata_after)))
    /\ UNCHANGED <<run, pc, args, fs, fs0, disk, disk0, writes, manifest, metadata_before,
                   metadata_after, archive, vcs_result, tmp_entries, archive_root, repo_url,
                   checkout_dir, current_vcs_info, revision, gitlog, patch_dir, resolver,
                   output, stages, err>>

NextDiff ==
    \/ DiffDeps
    \/ PrintDiff

SpecDiff == InitDiff /\ [][NextDiff]_vars

(***************************************************************************)
(* Properties.                                                             *)
(***************************************************************************)
Executed(stage) == \E i \in 1..Len(stages) : stages[i] = stage

InGitLog(op) == \E i \in 1..Len(gitlog) : gitlog[i] = op

Queried == \E i \in 1..Len(gitlog) : gitlog[i].op = "query_metadata"

HasBaseName(e) == IsSome(file_name(e.path))

IsVcsEntry(e) == file_name(e.path) = Some(VcsFileName)

VcsIndexes(a) == { i \in 1..Len(a) : IsVcsEntry(a[i]) }

NoVcsFile(a) == VcsIndexes(a) = {}

FirstVcs(a) == CHOOSE i \in VcsIndexes(a) : \A j \in VcsIndexes(a) : i <= j

\* what the first metadata file of the archive records
Recorded(a) == a[FirstVcs(a)].contents

NoSha1(c) == ~IsSome(c.git) \/ ~IsSome(Unwrap(c.git).sha1)

\* the archive was fetched and read without a transport or format error
Fetched ==
    /\ IsSome(vcs_result)
    /\ Unwrap(vcs_result).err \notin {"NetworkError", "ArchiveFormatError"}

AcquireStages ==
    {"unpack", "move", "get_repo", "lookup_vcs", "select_revision", "git_checkout",
     "path_in_repo"}

Rank(stage) ==
    IF stage \in {"query_before", "parse_manifest", "find_package"} THEN 0
    ELSE IF stage \in AcquireStages THEN 1
    ELSE IF stage = "insert_patch" THEN 2
    ELSE IF stage = "write_manifest" THEN 3
    ELSE IF stage = "cargo_update" THEN 4
    ELSE IF stage = "query_after" THEN 5
    ELSE 6

StagesInOrder ==
    \A i, j \in 1..Len(stages) : i < j => Rank(stages[i]) <= Rank(stages[j])

ResolverFailed == IsSome(resolver) /\ Unwrap(resolver) # 0

\* C1 (as claimed): the stages run in the order acquire, patch, write, resolver,
\* diff, and a failed stage, the resolver exiting with a non-success status
\* included, is the last one executed: neither the second metadata query nor the
\* diff runs after it.
C1_FailFast ==
    /\ StagesInOrder
    /\ ResolverFailed => ~Executed("query_after") /\ ~Executed("print_diff")

\* C2 (as claimed): a VCSHead acquisition that succeeds checks out "HEAD" and
\* yields the repository root as the source path, whatever the archive records.
C2_HeadIsRoot ==
    (args.source = "VCSHead" /\ IsSome(patch_dir)) =>
        /\ revision = Some("HEAD")
        /\ PathEq(Unwrap(patch_dir), Unwrap(checkout_dir))

\* C2 (amended): a VCSHead acquisition that succeeds checks out "HEAD"; the source
\* path is the checkout joined with the subpath the archive's metadata file
\* records (the root when it records none), and, when the archive has no metadata
\* file, the directory the checked-out repository's own metadata gives.
C2_HeadCheckout ==
    (args.source = "VCSHead" /\ IsSome(patch_dir)) =>
        /\ revision = Some("HEAD")
        /\ InGitLog(GitOp("checkout", Unwrap(checkout_dir), "HEAD"))
        /\ fs[Unwrap(checkout_dir)] = At("repo", "HEAD")
        /\ IF NoVcsFile(archive)
           THEN /\ Queried
                /\ \E d \in RepoManifestDirs :
                       patch_dir = Some(Join(Unwrap(checkout_dir), d))
           ELSE /\ ~Queried
                /\ IF IsSome(Recorded(archive).path_in_vcs)
                   THEN PathEq(Unwrap(patch_dir),
                               Join(Unwrap(checkout_dir),
                                    Unwrap(Recorded(archive).path_in_vcs)))
                   ELSE PathEq(Unwrap(patch_dir), Unwrap(checkout_dir))

\* C2 witness: VCSHead has succeeded on an archive that records a subpath
C2_Witness ==
    /\ args.source = "VCSHead"
    /\ IsSome(patch_dir)
    /\ ~NoVcsFile(archive)
    /\ IsSome(Recorded(archive).path_in_vcs)

C4_QueriesWithoutSubpath ==
    (args.source = "VCSCurrent" /\ IsSome(patch_dir)) =>
        /\ ~NoVcsFile(archive)
        /\ revision = Unwrap(Recorded(archive).git).sha1
        /\ IF IsSome(Recorded(archive).path_in_vcs)
           THEN PathEq(Unwrap(patch_dir),
                       Join(Unwrap(checkout_dir), Unwrap(Recorded(archive).path_in_vcs)))
           ELSE Queried

\* C4 (amended): a VCSCurrent acquisition that succeeds checks out the recorded
\* hash; the source path is the checkout joined with the recorded subpath, and
\* when no subpath is recorded it is the repository root, the repository's
\* own metadata never being queried.
C4_PinnedCheckout ==
    (args.source = "VCSCurrent" /\ IsSome(patch_dir)) =>
        /\ ~NoVcsFile(archive)
        /\ revision = Unwrap(Recorded(archive).git).sha1
        /\ InGitLog(GitOp("checkout", Unwrap(checkout_dir), Unwrap(revision)))
        /\ fs[Unwrap(checkout_dir)] = At("repo", Unwrap(revision))
        /\ ~Queried
        /\ IF IsSome(Recorded(archive).path_in_vcs)
           THEN PathEq(Unwrap(patch_dir),
                       Join(Unwrap(checkout_dir), Unwrap(Recorded(archive).path_in_vcs)))
           ELSE PathEq(Unwrap(patch_dir), Unwrap(checkout_dir))

\* C4 witness: VCSCurrent has succeeded on an archive that records no subpath
C4_Witness ==
    /\ args.source = "VCSCurrent"
    /\ IsSome(patch_dir)
    /\ ~NoVcsFile(archive)
    /\ ~IsSome(Recorded(archive).path_in_vcs)

IdsOf(metadata) == { n.id : n \in Unwrap(metadata).nodes }

DepsOf(metadata, id) ==
    UNION { n.dependencies : n \in { m \in Unwrap(metadata).nodes : m.id = id } }

NewNodes == IdsOf(metadata_after) \ IdsOf(metadata_before)

CommonNodes == IdsOf(metadata_after) \cap IdsOf(metadata_before)

\* C5 (as claimed): a node of "after" that is not in "before" is reported with an
\* empty removed set and all its dependencies as added.
C5_NewNodeFullDeps ==
    IsSome(diffs) =>
        \A n \in NewNodes : Diff(n, {}, DepsOf(metadata_after, n)) \in Unwrap(diffs)

\* C5 (amended): a node of "after" that is not in "before" is reported, once, with
\* an empty removed set and an empty added set; what is printed for it is the
\* "+<id>:" header alone.
C5_NewNodeBare ==
    /\ IsSome(diffs) =>
         \A n \in NewNodes :
            { d \in Unwrap(diffs) : d.pkg_id = n } = { Diff(n, {}, {}) }
    /\ pc = "done" =>
         \A n \in NewNodes :
            { b \in output : b.pkg_id = n } = { Block("new", n, {}, {}) }

\* C5 witness: the diff was computed and printed with a new node that has dependencies
C5_Witness ==
    /\ IsSome(diffs)
    /\ pc = "done"
    /\ \E n \in NewNodes : DepsOf(metadata_after, n) # {}

\* C6: a node in both graphs is reported exactly when its dependency sets differ,
\* with removed = before - after and added = after - before; a node only in
\* "before" is never reported; the diff of a graph with itself is empty.
C6_CommonNodes ==
    IsSome(diffs) =>
        /\ \A n \in CommonNodes :
              (DepsOf(metadata_before, n) # DepsOf(metadata_after, n))
                 <=> (\E d \in Unwrap(diffs) : d.pkg_id = n)
        /\ \A d \in Unwrap(diffs) :
              /\ d.pkg_id \in IdsOf(metadata_after)
              /\ d.pkg_id \in CommonNodes =>
                   /\ d.removed = DepsOf(metadata_before, d.pkg_id)
                                     \ DepsOf(metadata_after, d.pkg_id)
                   /\ d.added = DepsOf(metadata_after, d.pkg_id)
                                     \ DepsOf(metadata_before, d.pkg_id)
        /\ Unwrap(metadata_before).nodes = Unwrap(metadata_after).nodes
              => Unwrap(diffs) = {}

\* C6 witness: the diff was computed with a node only in "before" and a common
\* node that lost one dependency and gained another
C6_Witness ==
    /\ IsSome(diffs)
    /\ IdsOf(metadata_before) \ IdsOf(metadata_after) # {}
    /\ \E n \in CommonNodes :
          /\ DepsOf(metadata_before, n) \ DepsOf(metadata_after, n) # {}
          /\ DepsOf(metadata_after, n) \ DepsOf(metadata_before, n) # {}

\* C7 (as claimed): on a fetched archive without the metadata file the extraction
\* returns "no info", whatever the paths of its entries.
C7_AlwaysNoInfo ==
    (Fetched /\ NoVcsFile(archive)) => Unwrap(vcs_result) = Ok(None)

\* C7 (amended): on a fetched archive without the metadata file the extraction
\* returns "no info" when every entry's path has a base name, and fails with
\* "Unexpected path" when some entry's path has none.
C7_NoInfoOrUnexpectedPath ==
    (Fetched /\ NoVcsFile(archive)) =>
        IF \A i \in 1..Len(archive) : HasBaseName(archive[i])
        THEN Unwrap(vcs_result) = Ok(None)
        ELSE Unwrap(vcs_result) = Err("UnexpectedPath")

\* C7 witness: "no info" was returned for an archive of several entries
C7_Witness ==
    /\ Fetched
    /\ NoVcsFile(archive)
    /\ Len(archive) >= 2
    /\ Unwrap(vcs_result) = Ok(None)

\* the errors for a metadata file without revision: "No revision info found" and,
\* when the git section is missing as well, "No git info found"
MissingRevisionErrors == {"MissingVcsRevision", "NoGitInfo"}

\* C8: when the scan finds the first metadata file and it has no git.sha1, the
\* extraction fails for the missing revision: it neither returns "no info" nor
\* goes on to a later metadata file.
C8_MissingRevisionFails ==
    (/\ Fetched
     /\ ~NoVcsFile(archive)
     /\ \A j \in 1..(FirstVcs(archive) - 1) : HasBaseName(archive[j])
     /\ Recorded(archive).valid
     /\ NoSha1(Recorded(archive))) =>
        /\ ~Unwrap(vcs_result).ok
        /\ Unwrap(vcs_result).val = None
        /\ Unwrap(vcs_result).err \in MissingRevisionErrors
        /\ IsSome(Recorded(archive).git) => Unwrap(vcs_result).err = "MissingVcsRevision"
        /\ current_vcs_info = None
        /\ pc = "failed"
        /\ err = Unwrap(vcs_result).err

\* C8 witness: the extraction failed on a metadata file with a git section but no
\* sha1 that is followed by a complete metadata file
C8_Witness ==
    /\ Fetched
    /\ Cardinality(VcsIndexes(archive)) >= 2
    /\ Recorded(archive).valid
    /\ IsSome(Recorded(archive).git)
    /\ NoSha1(Recorded(archive))
    /\ ~NoSha1(archive[Len(archive)].contents)
    /\ Unwrap(vcs_result).err = "MissingVcsRevision"

Occupied0(p) == fs0[p].kind # "absent"

\* C9: a Crate run whose destination is occupied fails with DestinationExists
\* at the destination check, leaves every destination as it was and never
\* writes the manifest; so does a second Crate run into the first one's snapshot.
C9_DestinationKept ==
    /\ (args.source = "Crate" /\ IsSome(archive_root) /\ Occupied0(patch_root)) =>
          /\ pc \in {"move", "failed"}
          /\ pc = "failed" => err = "DestinationExists"
          /\ fs = fs0
          /\ writes = 0
          /\ disk = disk0
    /\ (args.source = "Crate" /\ IsSome(args.dest_dir) /\ Occupied0(Unwrap(args.dest_dir))) =>
          /\ pc \in {"query_before", "parse_manifest", "find_package", "unpack", "move",
                     "failed"}
          /\ fs = fs0
          /\ writes = 0
          /\ disk = disk0

\* C9 witness: a second run has failed on the snapshot an earlier run moved there
C9_Witness ==
    /\ run = 2
    /\ args.source = "Crate"
    /\ IsSome(archive_root)
    /\ fs0[patch_root] = At("dir", "snapshot")
    /\ pc = "failed"
    /\ err = "DestinationExists"

\* C10 (as claimed): the full unpack succeeds only on a scratch directory with
\* exactly one top-level entry that is a directory, which it returns; with no
\* or several top-level entries it fails with MalformedArchiveLayout.
C10_SingleDirectory ==
    /\ IsSome(archive_root) =>
          \E e \in tmp_entries :
             /\ tmp_entries = {e}
             /\ e.is_dir
             /\ archive_root = Some(Join(TmpDir, <<e.name>>))
    /\ (/\ Executed("unpack")
        /\ err \notin {"NetworkError", "ArchiveFormatError"}
        /\ Cardinality(tmp_entries) # 1) =>
          /\ pc = "failed"
          /\ err = "MalformedArchiveLayout"
          /\ archive_root = None


(***************************************************************************)
(* The override table.                                                     *)
(***************************************************************************)
\* the override was put into the in-memory document in this run
InsertDone == Executed("insert_patch") /\ err # "MalformedCargoToml"

EntriesOf(doc) == doc.patch.crates_io.entries

\* the items a table holds under a key
ItemsAt(entries, key) == {entries[i].item : i \in KeyIndexes(entries, key)}

UniqueKeys(doc) ==
    \A n \in CrateNames : Cardinality(KeyIndexes(EntriesOf(doc), n)) <= 1

\* C11: after any sequence of manifest_insert_patch calls patch.crates-io holds
\* at most one entry per package name; the entry of the name just patched is
\* { path = <the path of this call>, package = <name> }, whatever entry the name
\* had before, and the entry of every other name is the one it had (the one its
\* own most recent call left).
C11_OneEntryLatestPath ==
    /\ UniqueKeys(disk)
    /\ IsSome(manifest) => UniqueKeys(Unwrap(manifest))
    /\ InsertDone =>
          LET e == EntriesOf(Unwrap(manifest))
          IN  /\ Cardinality(KeyIndexes(e, args.crate_name)) = 1
              /\ ItemsAt(e, args.crate_name) =
                    {PatchEntry(Unwrap(patch_dir), args.crate_name)}
              /\ \A n \in CrateNames \ {args.crate_name} :
                    ItemsAt(e, n) = ItemsAt(EntriesOf(disk0), n)

\* C11 witness: the second run patches a name the first run patched with another
\* path, and the table holds the second path only
C11_Witness ==
    /\ run = 2
    /\ InsertDone
    /\ \E old \in ItemsAt(EntriesOf(disk0), args.crate_name) :
          /\ old.path # OldPath
          /\ old.path # Unwrap(patch_dir)
    /\ ItemsAt(EntriesOf(Unwrap(manifest)), args.crate_name) =
          {PatchEntry(Unwrap(patch_dir), args.crate_name)}


(***************************************************************************)
(* The serialized document.                                                *)
(***************************************************************************)
IsEntryOf(l, name) == l.kind = "entry" /\ l.key = name

RangeOf(lines) == {lines[i] : i \in DOMAIN lines}

\* the lines of a document other than the override entry of a name
OtherLines(doc, name) == SelectSeq(Render(doc), LAMBDA l : ~IsEntryOf(l, name))

\* the same, without the section headers the original file did not have
OtherLinesSince(doc, name, orig) ==
    SelectSeq(OtherLines(doc, name),
              LAMBDA l : l.kind = "header" => l \in RangeOf(Render(orig)))

\* C12: patching a manifest for package P changes nothing in the serialized
\* document except the entry patch.crates-io.P (and the section header a new
\* entry needs): every other line of the original, the [patch] and
\* [patch.crates-io] headers and the entries of other names among them, is
\* emitted as in the original and in the original order.
C12_OnlyEntryChanges ==
    InsertDone =>
        OtherLinesSince(Unwrap(manifest), args.crate_name, disk0) =
            OtherLines(disk0, args.crate_name)


(***************************************************************************)
(* The manifest file.                                                      *)
(***************************************************************************)
\* C13: the manifest file is written at most once per run, and only after the
\* source was acquired and the override put into the in-memory document (the
\* file then holds that document); a run that fails before the write, at the
\* package lookup, the registry lookup, the fetch, the version-control lookup,
\* the checkout, the destination check or the navigation to the override table,
\* leaves the file as it was at the start of the run.
C13_WrittenOnceAfterPatch ==
    /\ writes <= 1
    /\ writes = 0 => disk = disk0
    /\ writes = 1 =>
          /\ Executed("write_manifest")
          /\ InsertDone
          /\ IsSome(patch_dir)
          /\ disk = Unwrap(manifest)
          /\ ItemsAt(EntriesOf(disk), args.crate_name) =
                {PatchEntry(Unwrap(patch_dir), args.crate_name)}
    /\ (pc = "failed" /\ ~Executed("write_manifest")) => (writes = 0 /\ disk = disk0)

\* C13 witness: the source was acquired, the navigation to the override table
\* failed and the file is untouched
C13_Witness ==
    /\ pc = "failed"
    /\ err = "MalformedCargoToml"
    /\ fs # fs0
    /\ writes = 0
    /\ disk = disk0

====
